---- MODULE Spec2Model ----
(***************************************************************************)
(* A model of laurier's styled-text core:                                  *)
(*   - to_ranges / sort_and_dedup        (src/src/highlight.rs)            *)
(*   - HigilightMatchedText and its into_spans  (src/src/highlight.rs)     *)
(*   - TruncateSpans and its into_spans         (src/src/spans.rs)         *)
(* A string is a sequence of one-character strings.  In highlight.rs every *)
(* character used here is one byte long, so a byte offset is an index into *)
(* the sequence; in spans.rs a character has a display width (CharWidth).  *)
(* An Option is a sequence of length 0 (None) or 1 (Some).                 *)
(***************************************************************************)
EXTENDS Integers, Sequences, FiniteSets, TLC

VARIABLES
    \* HigilightMatchedText (highlight.rs:17-23)
    spans, matches, not_matched_style, matched_style, ellipsis,
    \* the argument of the last matched_indices call, the value into_spans
    \* returned, and where the builder is: "idle", "built", "done", "panicked"
    indices, result, pc,
    \* TruncateSpans (spans.rs:15-20), the value its into_spans returned, and
    \* where that builder is: "idle", "built", "done"
    t_spans, max_width, t_ellipsis, ellipsis_style, t_result, t_pc,
    \* a direct call of to_ranges: its argument, its value, the value of
    \* to_ranges on the flattened value, and "idle", "called", "returned",
    \* "reapplied", "panicked"
    r_indices, r_ranges, r_again, r_pc

hvars == <<spans, matches, not_matched_style, matched_style, ellipsis, indices, result, pc>>
tvars == <<t_spans, max_width, t_ellipsis, ellipsis_style, t_result, t_pc>>
rvars == <<r_indices, r_ranges, r_again, r_pc>>
vars == <<hvars, tvars, rvars>>

----------------------------------------------------------------------------
\* Bounds of the model.

\* usize is modelled as a word of UsizeBits bits.
UsizeBits == 8
\* match indices are drawn from 0..MaxIndex and from the top of usize
MaxIndex == 4
\* longest index list handed to matched_indices
MaxIndices == 3
\* longest index list handed to to_ranges directly (any order, duplicates)
MaxRawIndices == 4
\* largest small index handed to to_ranges directly
MaxRawIndex == 3
\* most fragments, and most bytes of content, of a highlighted line
MaxFrags == 2
MaxLen == 4
\* longest ellipsis handed to HigilightMatchedText::ellipsis
MaxEllipsis == 2
\* most fragments, and most characters of content, of a truncated line
MaxTFrags == 2
MaxTLen == 4
\* longest ellipsis handed to TruncateSpans::ellipsis, largest max_width
MaxTEllipsis == 2
MaxWidth == 7

USIZE_MAX == 2^UsizeBits - 1

Min(a, b) == IF a < b THEN a ELSE b
Max(a, b) == IF a > b THEN a ELSE b
SetMin(S) == CHOOSE x \in S : \A y \in S : x <= y

None == <<>>
Some(x) == <<x>>

\* &s[a..b] of a string
Slice(s, a, b) == SubSeq(s, a + 1, b)

RECURSIVE Concat(_)
Concat(ss) == IF ss = <<>> THEN <<>> ELSE Head(ss) \o Concat(Tail(ss))

----------------------------------------------------------------------------
\* ratatui's Style and Span, as far as this crate uses them.

DefaultStyle == [fg |-> "None", bg |-> "None", add_modifier |-> {}, sub_modifier |-> {}]

MkStyle(fg, bg, mods) == [fg |-> fg, bg |-> bg, add_modifier |-> mods, sub_modifier |-> {}]

\* Style::patch: every attribute set in other replaces the one of base
patch(base, other) ==
    [fg |-> IF other.fg # "None" THEN other.fg ELSE base.fg,
     bg |-> IF other.bg # "None" THEN other.bg ELSE base.bg,
     add_modifier |-> (base.add_modifier \ other.sub_modifier) \cup other.add_modifier,
     sub_modifier |-> (base.sub_modifier \ other.add_modifier) \cup other.sub_modifier]

\* Span::styled(content, style)
Styled(content, style) == [content |-> content, style |-> style]

RECURSIVE Contents(_)
Contents(ss) == IF ss = <<>> THEN <<>> ELSE <<Head(ss).content>> \o Contents(Tail(ss))

\* the concatenated content of a fragment list
Text(ss) == Concat(Contents(ss))

----------------------------------------------------------------------------
\* highlight.rs: Range, sort_and_dedup, to_ranges

Range(start, end) == [start |-> start, end |-> end]

RECURSIVE Insert(_, _)
Insert(x, sorted) ==
    IF sorted = <<>> THEN <<x>>
    ELSE IF x <= Head(sorted) THEN <<x>> \o sorted
    ELSE <<Head(sorted)>> \o Insert(x, Tail(sorted))

\* indices.sort_unstable()
RECURSIVE Sort(_)
Sort(s) == IF s = <<>> THEN <<>> ELSE Insert(Head(s), Sort(Tail(s)))

\* indices.dedup(): consecutive repeated elements are removed
RECURSIVE Dedup(_)
Dedup(s) ==
    IF Len(s) <= 1 THEN s
    ELSE IF s[1] = s[2] THEN Dedup(Tail(s))
    ELSE <<Head(s)>> \o Dedup(Tail(s))

\* a sort_and_dedup that forgets to dedup
sort_only(ixs) == Sort(ixs)

sort_and_dedup(ixs) == Dedup(Sort(ixs))

\* i + 1 on usize: with overflow checks (a debug build) USIZE_MAX + 1 panics,
\* without them (a release build) it wraps to 0
Add1Overflows(i) == i = USIZE_MAX
Add1(i) == (i + 1) % (USIZE_MAX + 1)

\* `if i == end`
ExtendsWindow(i, end) == i = end

\* the loop of to_ranges over the sorted indices after the first
RECURSIVE ToRangesLoop(_, _, _, _, _)
ToRangesLoop(rest, start, end, ranges, checks) ==
    IF rest = <<>> THEN [panic |-> FALSE, ranges |-> Append(ranges, Range(start, end))]
    ELSE LET i == Head(rest) IN
         IF checks /\ Add1Overflows(i) THEN [panic |-> TRUE, ranges |-> <<>>]
         ELSE IF ExtendsWindow(i, end)
              THEN ToRangesLoop(Tail(rest), start, Add1(i), ranges, checks)
              ELSE ToRangesLoop(Tail(rest), i, Add1(i),
                                Append(ranges, Range(start, end)), checks)

\* to_ranges(indices) in a build with (checks) or without overflow checks:
\* whether it panicked, and the ranges it returned
to_ranges(ixs, checks) ==
    IF ixs = <<>> THEN [panic |-> FALSE, ranges |-> <<>>]
    ELSE LET sorted == sort_and_dedup(ixs) IN
         IF checks /\ Add1Overflows(sorted[1]) THEN [panic |-> TRUE, ranges |-> <<>>]
         ELSE ToRangesLoop(Tail(sorted), sorted[1], Add1(sorted[1]), <<>>, checks)

\* r.start..r.end
RangeIndices(r) ==
    IF r.start < r.end THEN [k \in 1..(r.end - r.start) |-> r.start + k - 1] ELSE <<>>

\* ranges.iter().flat_map(|r| r.start..r.end).collect()
RECURSIVE FlatIndices(_)
FlatIndices(rs) == IF rs = <<>> THEN <<>> ELSE RangeIndices(Head(rs)) \o FlatIndices(Tail(rs))

----------------------------------------------------------------------------
\* highlight.rs: HigilightMatchedText::into_spans

RECURSIVE TotalLen(_)
\* self.spans.iter().map(|s| s.content.len()).sum()
TotalLen(ss) == IF ss = <<>> THEN 0 ELSE Len(Head(ss).content) + TotalLen(Tail(ss))

\* limit: total_len.saturating_sub(ellipsis_len) with an ellipsis, total_len without
Limit(total_len, ell) ==
    IF ell = None THEN total_len ELSE Max(total_len - Len(ell[1]), 0)

\* a scan that also stops at a range that ends exactly at limit
FirstPastInclusive(ms, limit) ==
    LET past == {i \in 1..Len(ms) : limit <= ms[i].end}
    IN IF past = {} THEN 0 ELSE SetMin(past)

\* the index of the first range with limit < r.end, 0 when there is none
FirstPast(ms, limit) ==
    LET past == {i \in 1..Len(ms) : limit < ms[i].end}
    IN IF past = {} THEN 0 ELSE SetMin(past)

\* a clipped range that stops at limit instead of total_len
ClippedRangeToLimit(r, limit, total_len) ==
    IF r.start < limit THEN Range(r.start, limit) ELSE Range(limit, limit)

\* the range pushed in place of the first range that ends past limit
ClippedRange(r, limit, total_len) ==
    IF r.start < limit THEN Range(r.start, total_len) ELSE Range(limit, total_len)

\* matches_to_use: whether computing it panicked, and the ranges
MatchesToUse(ms, limit, total_len, ell, checks) ==
    IF ell = None THEN [panic |-> FALSE, ranges |-> ms]
    ELSE LET i == FirstPast(ms, limit) IN
         IF i = 0 THEN [panic |-> FALSE, ranges |-> ms]
         ELSE LET tmp_matches == Append(SubSeq(ms, 1, i - 1),
                                        ClippedRange(ms[i], limit, total_len))
              IN to_ranges(FlatIndices(tmp_matches), checks)

\* a find_next_break that breaks after every byte
find_next_break_each_byte(pos, ms) == Some(pos + 1)

\* find_next_break: the least start or end of a range that is > pos
find_next_break(pos, ms) ==
    LET bs == {ms[i].start : i \in 1..Len(ms)} \cup {ms[i].end : i \in 1..Len(ms)}
        after == {b \in bs : b > pos}
    IN IF after = {} THEN None ELSE Some(SetMin(after))

UnwrapOr(opt, default) == IF opt = None THEN default ELSE opt[1]

\* an is_matched that forgets the start of the range
is_matched_no_start(pos, ms) ==
    \E i \in 1..Len(ms) : pos < ms[i].end

\* matches.iter().any(|r| r.start <= pos && pos < r.end)
is_matched(pos, ms) ==
    \E i \in 1..Len(ms) : ms[i].start <= pos /\ pos < ms[i].end

\* a span end that is not cut at limit
EffectiveSpanEndUncut(current_pos, span_len, limit) == current_pos + span_len

\* effective_span_end
EffectiveSpanEnd(current_pos, span_len, limit) == Min(current_pos + span_len, limit)

\* a style that overwrites the fragment's style
SpanStyleOverwrite(original_style, matched, self) ==
    IF matched THEN self.matched_style ELSE self.not_matched_style

\* the style of an emitted sub-fragment
SpanStyle(original_style, matched, self) ==
    IF matched THEN patch(original_style, self.matched_style)
    ELSE patch(original_style, self.not_matched_style)

\* an ellipsis that is never styled as matched
EllipsisStyleUnmatched(matched, self) == self.not_matched_style

\* the style of the ellipsis fragment
EllipsisStyle(matched, self) ==
    IF matched THEN self.matched_style ELSE self.not_matched_style

\* the continuation bytes of a multi-byte character: the character written
\* "E~" below is one character of two bytes
ContinuationBytes == {"~"}

\* str::is_char_boundary: the start, the end, or a byte that starts a character
is_char_boundary(s, index) ==
    \/ index = 0
    \/ index = Len(s)
    \/ index < Len(s) /\ s[index + 1] \notin ContinuationBytes

\* &s[begin..end] panics when the range is not inside s
SliceOutOfRange(s, begin, end) == begin > end \/ end > Len(s)

\* &s[begin..end] panics when an end is inside a character
SliceOffBoundary(s, begin, end) ==
    ~is_char_boundary(s, begin) \/ ~is_char_boundary(s, end)

\* a - b of two usize: it underflows when a < b, and then wraps in a build
\* without overflow checks
SubUnderflows(a, b) == a < b
Sub(a, b) == (a - b + 2^UsizeBits) % 2^UsizeBits

\* the while loop over one span: the spans pushed, appended to acc, and why
\* the loop panicked, "none" when it did not
RECURSIVE SpanLoop(_, _, _, _, _, _, _, _)
SpanLoop(span, current_pos, span_cursor, effective_span_end, ms, self, checks, acc) ==
    IF ~(current_pos + span_cursor < effective_span_end) THEN [why |-> "none", spans |-> acc]
    ELSE LET current_abs_pos == current_pos + span_cursor
             next_break == Min(UnwrapOr(find_next_break(current_abs_pos, ms),
                                        effective_span_end),
                               effective_span_end)
             end_in_span == Sub(next_break, current_pos)
             content_slice == Slice(span.content, span_cursor, end_in_span)
         IN IF checks /\ SubUnderflows(next_break, current_pos)
            THEN [why |-> "underflow", spans |-> acc]
            ELSE IF SliceOutOfRange(span.content, span_cursor, end_in_span)
            THEN [why |-> "range", spans |-> acc]
            ELSE IF SliceOffBoundary(span.content, span_cursor, end_in_span)
            THEN [why |-> "boundary", spans |-> acc]
            ELSE IF content_slice = <<>>
            THEN SpanLoop(span, current_pos, end_in_span, effective_span_end, ms, self,
                          checks, acc)
            ELSE SpanLoop(span, current_pos, end_in_span, effective_span_end, ms, self,
                          checks,
                          Append(acc, Styled(content_slice,
                                             SpanStyle(span.style,
                                                       is_matched(current_abs_pos, ms),
                                                       self))))

\* the for loop over self.spans: result_spans, and why it panicked
RECURSIVE SpansLoop(_, _, _, _, _, _, _)
SpansLoop(rest, current_pos, limit, ms, self, checks, acc) ==
    IF rest = <<>> \/ current_pos >= limit THEN [why |-> "none", spans |-> acc]
    ELSE LET span == Head(rest)
             span_len == Len(span.content)
             pushed == SpanLoop(span, current_pos, 0,
                                EffectiveSpanEnd(current_pos, span_len, limit),
                                ms, self, checks, acc)
         IN IF pushed.why # "none" THEN pushed
            ELSE SpansLoop(Tail(rest), current_pos + span_len, limit, ms, self, checks,
                           pushed.spans)

\* the ellipsis fragment pushed last, when an ellipsis was given
EllipsisSpans(limit, ms, self) ==
    IF self.ellipsis = None THEN <<>>
    ELSE <<Styled(self.ellipsis[1], EllipsisStyle(is_matched(limit, ms), self))>>

\* into_spans of self = [spans, matches, not_matched_style, matched_style,
\* ellipsis]: whether it panicked and why ("overflow" in to_ranges,
\* "underflow" of next_break - current_pos, a slice out of "range" or off a
\* character "boundary"), and the spans it returned
into_spans(self, checks) ==
    IF self.spans = <<>> THEN [panic |-> FALSE, why |-> "none", spans |-> <<>>]
    ELSE LET total_len == TotalLen(self.spans)
             limit == Limit(total_len, self.ellipsis)
             use == MatchesToUse(self.matches, limit, total_len, self.ellipsis, checks)
             looped == SpansLoop(self.spans, 0, limit, use.ranges, self, checks, <<>>)
         IN IF use.panic THEN [panic |-> TRUE, why |-> "overflow", spans |-> <<>>]
            ELSE IF looped.why # "none"
            THEN [panic |-> TRUE, why |-> looped.why, spans |-> <<>>]
            ELSE [panic |-> FALSE, why |-> "none",
                  spans |-> looped.spans \o EllipsisSpans(limit, use.ranges, self)]

----------------------------------------------------------------------------
\* The inputs of the highlighter.

\* styles of the fragments, by position (test_highlight_with_spans_with_style)
FragStyle(i) ==
    CASE i = 1 -> MkStyle("Blue", "None", {"BOLD"})
      [] i = 2 -> MkStyle("None", "Cyan", {"ITALIC"})
      [] OTHER -> MkStyle("Yellow", "Magenta", {"BOLD"})

MatchedStyles == {MkStyle("None", "Yellow", {})}
NotMatchedStyles == {MkStyle("DarkGray", "None", {})}

Letters == <<"a", "b", "c", "d", "e", "f", "g", "h", "i", "j", "k", "l">>

\* the cuts of a content of length n into k fragments (empty ones included)
Cuts(k, n) ==
    {c \in [0..k -> 0..n] : c[0] = 0 /\ c[k] = n /\ \A i \in 1..k : c[i - 1] <= c[i]}

\* the fragment lists of at most MaxFrags fragments over the first n <= MaxLen
\* letters: every byte of a line is distinct
FragLists ==
    {<<>>} \cup
    UNION {UNION {{[i \in 1..k |-> Styled(SubSeq(Letters, c[i - 1] + 1, c[i]), FragStyle(i))]
                    : c \in Cuts(k, n)} : n \in 0..MaxLen} : k \in 1..MaxFrags}

Dots(n) == [i \in 1..n |-> "."]

\* the lines of the tests: "abcdef...", and "abc", "def", "ghi" as raw spans
\* and as styled spans
TestLines ==
    {<<Styled(SubSeq(Letters, 1, 6) \o Dots(3), FragStyle(1))>>,
     <<Styled(SubSeq(Letters, 1, 3), DefaultStyle),
       Styled(SubSeq(Letters, 4, 6), DefaultStyle),
       Styled(SubSeq(Letters, 7, 9), DefaultStyle)>>,
     <<Styled(SubSeq(Letters, 1, 3), FragStyle(1)),
       Styled(SubSeq(Letters, 4, 6), FragStyle(2)),
       Styled(SubSeq(Letters, 7, 9), FragStyle(3))>>}

\* lines with a character of two bytes: "aE~", and "E~", "b"
MultiByteLines ==
    {<<Styled(<<"a", "E", "~">>, FragStyle(1))>>,
     <<Styled(<<"E", "~">>, FragStyle(1)), Styled(<<"b">>, FragStyle(2))>>}

SpanInputs == FragLists \cup TestLines \cup MultiByteLines

IndexDomain == (0..MaxIndex) \cup {USIZE_MAX - 1, USIZE_MAX}

\* a set of indices as a list in descending order
RECURSIVE Descending(_)
Descending(S) ==
    IF S = {} THEN <<>>
    ELSE LET m == CHOOSE x \in S : \A y \in S : y <= x
         IN <<m>> \o Descending(S \ {m})

\* the index lists of the tests that fit the lines above
TestIndices == {<<3, 4, 5>>, <<3, 4, 5, 6>>, <<1, 2, 5, 6>>}

IndexInputs ==
    {Descending(S) : S \in {T \in SUBSET IndexDomain : Cardinality(T) <= MaxIndices}}
    \cup TestIndices

\* "", ".", "..", ... and the "..." of the tests
EllipsisInputs == {Dots(n) : n \in 0..MaxEllipsis} \cup {Dots(3)}

Self == [spans |-> spans, matches |-> matches, not_matched_style |-> not_matched_style,
         matched_style |-> matched_style, ellipsis |-> ellipsis]

----------------------------------------------------------------------------
\* The highlighter as a state machine: highlight_matched_text(t), the
\* builder's setters in any order, then into_spans.  A chain is bounded to one
\* call per field: a second call of a setter only overwrites what the first
\* one stored, so every value of self is reached by such a chain.

\* neither matched_indices nor matched_range has been called yet
MatchesUnset == matches = <<>> /\ indices = <<>>

HIdle ==
    /\ spans = <<>> /\ matches = <<>> /\ not_matched_style = DefaultStyle
    /\ matched_style = DefaultStyle /\ ellipsis = None
    /\ indices = <<>> /\ result = <<>> /\ pc = "idle"

\* highlight_matched_text(t): the other fields are Default::default()
InitHighlight ==
    /\ spans \in SpanInputs
    /\ matches = <<>>
    /\ not_matched_style = DefaultStyle
    /\ matched_style = DefaultStyle
    /\ ellipsis = None
    /\ indices = <<>>
    /\ result = <<>>
    /\ pc = "built"

\* matched_indices(indices): self.matches = to_ranges(indices); a build with
\* overflow checks panics where one without them wraps. self.matches is
\* assigned only when to_ranges returns (the old list is shown as empty after
\* a panic: self was moved into the call and is dropped by the unwinding)
MatchedIndices ==
    /\ pc = "built"
    /\ MatchesUnset
    /\ \E ixs \in IndexInputs, checks \in BOOLEAN :
          LET r == to_ranges(ixs, checks) IN
          /\ indices' = ixs
          /\ IF r.panic
             THEN pc' = "panicked" /\ matches' = <<>>
             ELSE pc' = "built" /\ matches' = r.ranges
    /\ UNCHANGED <<spans, not_matched_style, matched_style, ellipsis, result>>
    /\ UNCHANGED <<tvars, rvars>>

\* matched_range(start, end)
MatchedRange ==
    /\ pc = "built"
    /\ MatchesUnset
    /\ \E start \in IndexDomain, end \in IndexDomain :
          matches' = <<Range(start, end)>>
    /\ indices' = <<>>
    /\ UNCHANGED <<spans, not_matched_style, matched_style, ellipsis, result, pc>>
    /\ UNCHANGED <<tvars, rvars>>

\* not_matched_style(style)
NotMatchedStyle ==
    /\ pc = "built"
    /\ matched_style = DefaultStyle
    /\ not_matched_style = DefaultStyle
    /\ \E style \in NotMatchedStyles : not_matched_style' = style
    /\ UNCHANGED <<spans, matches, matched_style, ellipsis, indices, result, pc>>
    /\ UNCHANGED <<tvars, rvars>>

\* matched_style(style)
MatchedStyle ==
    /\ pc = "built"
    /\ matched_style = DefaultStyle
    /\ \E style \in MatchedStyles : matched_style' = style
    /\ UNCHANGED <<spans, matches, not_matched_style, ellipsis, indices, result, pc>>
    /\ UNCHANGED <<tvars, rvars>>

\* ellipsis(ellipsis)
Ellipsis ==
    /\ pc = "built"
    /\ ellipsis = None
    /\ \E e \in EllipsisInputs : ellipsis' = Some(e)
    /\ UNCHANGED <<spans, matches, not_matched_style, matched_style, indices, result, pc>>
    /\ UNCHANGED <<tvars, rvars>>

\* into_spans(self)
IntoSpans ==
    /\ pc = "built"
    /\ \E checks \in BOOLEAN :
          LET r == into_spans(Self, checks) IN
          IF r.panic
          THEN pc' = "panicked" /\ UNCHANGED result
          ELSE pc' = "done" /\ result' = r.spans
    /\ UNCHANGED <<spans, matches, not_matched_style, matched_style, ellipsis, indices>>
    /\ UNCHANGED <<tvars, rvars>>

TIdle ==
    /\ t_spans = <<>> /\ max_width = 0 /\ t_ellipsis = <<>>
    /\ ellipsis_style = DefaultStyle /\ t_result = <<>> /\ t_pc = "idle"

RIdle == r_indices = <<>> /\ r_ranges = <<>> /\ r_again = <<>> /\ r_pc = "idle"

NextHighlight ==
    \/ MatchedIndices
    \/ MatchedRange
    \/ NotMatchedStyle
    \/ MatchedStyle
    \/ Ellipsis
    \/ IntoSpans

----------------------------------------------------------------------------
\* to_ranges called directly, then called again on its flattened value.

RawDomain == (0..MaxRawIndex) \cup {USIZE_MAX - 1, USIZE_MAX}

\* the index lists of at most MaxRawIndices entries, in any order, with
\* duplicates
RawIndexInputs == UNION {[1..n -> RawDomain] : n \in 0..MaxRawIndices}

InitRanges ==
    /\ r_indices \in RawIndexInputs
    /\ r_ranges = <<>>
    /\ r_again = <<>>
    /\ r_pc = "called"

\* to_ranges(indices) returns or, in a build with overflow checks, panics
ToRanges ==
    /\ r_pc = "called"
    /\ \E checks \in BOOLEAN :
          LET r == to_ranges(r_indices, checks) IN
          IF r.panic
          THEN r_pc' = "panicked" /\ UNCHANGED r_ranges
          ELSE r_pc' = "returned" /\ r_ranges' = r.ranges
    /\ UNCHANGED <<r_indices, r_again>>
    /\ UNCHANGED <<hvars, tvars>>

\* to_ranges(ranges.iter().flat_map(|r| r.start..r.end).collect()), as
\* into_spans calls it on tmp_matches
Reapply ==
    /\ r_pc = "returned"
    /\ \E checks \in BOOLEAN :
          LET r == to_ranges(FlatIndices(r_ranges), checks) IN
          IF r.panic
          THEN r_pc' = "panicked" /\ UNCHANGED r_again
          ELSE r_pc' = "reapplied" /\ r_again' = r.ranges
    /\ UNCHANGED <<r_indices, r_ranges>>
    /\ UNCHANGED <<hvars, tvars>>

NextRanges ==
    \/ ToRanges
    \/ Reapply

----------------------------------------------------------------------------
\* spans.rs: TruncateSpans::into_spans and the console crate's two functions.
\* A character is one column wide, or two (the glyphs of WideChars).

NarrowLetters == <<"a", "b", "c", "d", "e", "f", "g", "h", "i", "j">>
WideLetters == <<"A", "B", "C", "D", "E", "F", "G", "H", "I", "J">>
WideChars == {WideLetters[i] : i \in 1..Len(WideLetters)} \cup {"::"}

CharWidth(c) == IF c \in WideChars THEN 2 ELSE 1

\* console::measure_text_width(s)
RECURSIVE measure_text_width(_)
measure_text_width(s) ==
    IF s = <<>> THEN 0 ELSE CharWidth(Head(s)) + measure_text_width(Tail(s))

\* console::truncate_str(s, width, ""): the longest prefix of s that is at
\* most width columns wide
RECURSIVE truncate_str(_, _)
truncate_str(s, width) ==
    IF s = <<>> \/ CharWidth(Head(s)) > width THEN <<>>
    ELSE <<Head(s)>> \o truncate_str(Tail(s), width - CharWidth(Head(s)))

RECURSIVE SumSeq(_)
SumSeq(ws) == IF ws = <<>> THEN 0 ELSE Head(ws) + SumSeq(Tail(ws))

\* an early return that misses the exact fit
FitsStrict(total_width, maxw) == total_width < maxw

\* `span_widths.iter().sum::<usize>() <= self.max_width`
Fits(total_width, maxw) == total_width <= maxw

\* a budget that forgets the ellipsis
BudgetWhole(maxw, ellipsis_width) == maxw

\* rest_w = self.max_width; rest_w -= ellipsis_width
Budget(maxw, ellipsis_width) == maxw - ellipsis_width

\* a loop that forgets to take a kept span off the budget
RestAfterKept(rest_w, w) == rest_w

\* rest_w -= w
RestAfter(rest_w, w) == rest_w - w

\* an ellipsis span that is left unstyled
EllipsisSpanRaw(text, self) == Styled(text, DefaultStyle)

\* Span::from(text).style(self.ellipsis_style)
EllipsisSpan(text, self) == Styled(text, self.ellipsis_style)

\* the for loop over self.spans from span i on: ret, rest_w and exceed
RECURSIVE KeepLoop(_, _, _, _, _)
KeepLoop(ss, span_widths, i, rest_w, ret) ==
    IF i > Len(ss) THEN [ret |-> ret, rest_w |-> rest_w, exceed |-> FALSE]
    ELSE LET w == span_widths[i] IN
         IF w > rest_w
         THEN [ret |-> Append(ret, ss[i]), rest_w |-> rest_w, exceed |-> TRUE]
         ELSE KeepLoop(ss, span_widths, i + 1, RestAfter(rest_w, w), Append(ret, ss[i]))

\* into_spans of self = [spans, max_width, ellipsis, ellipsis_style]
truncate_into_spans(self) ==
    LET total_spans == Len(self.spans)
        span_widths == [i \in 1..total_spans |-> measure_text_width(self.spans[i].content)]
    IN IF Fits(SumSeq(span_widths), self.max_width) THEN self.spans
       ELSE LET ellipsis_width == measure_text_width(self.ellipsis) IN
            IF ellipsis_width >= self.max_width
            THEN <<EllipsisSpan(truncate_str(self.ellipsis, self.max_width), self)>>
            ELSE LET kept == KeepLoop(self.spans, span_widths, 1,
                                      Budget(self.max_width, ellipsis_width), <<>>)
                 IN IF ~kept.exceed /\ Len(kept.ret) = total_spans THEN kept.ret
                    ELSE LET last_span == kept.ret[Len(kept.ret)]
                             popped == SubSeq(kept.ret, 1, Len(kept.ret) - 1)
                             truncated == truncate_str(last_span.content, kept.rest_w)
                             cut == IF truncated # <<>>
                                    THEN Append(popped, Styled(truncated, last_span.style))
                                    ELSE popped
                         IN IF self.ellipsis # <<>>
                            THEN Append(cut, EllipsisSpan(self.ellipsis, self))
                            ELSE cut

----------------------------------------------------------------------------
\* The inputs of the truncator.

\* styles of the fragments, by position: style1(), style2(), style3()
TStyle(i) ==
    CASE i = 1 -> MkStyle("Red", "Cyan", {"BOLD"})
      [] i = 2 -> MkStyle("Green", "Magenta", {"ITALIC"})
      [] OTHER -> MkStyle("Blue", "Yellow", {"UNDERLINED"})

\* ellipsis_style() of the tests
EllipsisStyles == {MkStyle("White", "Black", {"DIM"})}

\* a content of n characters, the i-th narrow or wide as wide[i] says; every
\* character of a line is distinct
Chars(wide) == [i \in DOMAIN wide |-> IF wide[i] THEN WideLetters[i] ELSE NarrowLetters[i]]

\* the fragment lists of at most MaxTFrags fragments over n <= MaxTLen
\* characters
TFragLists ==
    {<<>>} \cup
    UNION {UNION {{[i \in 1..k |-> Styled(SubSeq(Chars(wide), c[i - 1] + 1, c[i]), TStyle(i))]
                    : c \in Cuts(k, n), wide \in [1..n -> BOOLEAN]}
                  : n \in 0..MaxTLen} : k \in 1..MaxTFrags}

\* the line of the tests: "abc", "def", "ghi"
TTestLines ==
    {<<Styled(SubSeq(NarrowLetters, 1, 3), TStyle(1)),
       Styled(SubSeq(NarrowLetters, 4, 6), TStyle(2)),
       Styled(SubSeq(NarrowLetters, 7, 9), TStyle(3))>>}

TSpanInputs == TFragLists \cup TTestLines

\* "", ".", "..", ... and the same after a double-width glyph
TEllipsisInputs ==
    {Dots(n) : n \in 0..MaxTEllipsis} \cup {<<"::">> \o Dots(n) : n \in 0..(MaxTEllipsis - 1)}

TSelf == [spans |-> t_spans, max_width |-> max_width, ellipsis |-> t_ellipsis,
          ellipsis_style |-> ellipsis_style]

----------------------------------------------------------------------------
\* The truncator as a state machine: truncate_spans(spans, max_width), the
\* builder's setters, then into_spans.  As for the highlighter a chain is
\* bounded to one call per field.

\* truncate_spans(spans, max_width): the other fields are Default::default()
InitTruncate ==
    /\ t_spans \in TSpanInputs
    /\ max_width \in 0..MaxWidth
    /\ t_ellipsis = <<>>
    /\ ellipsis_style = DefaultStyle
    /\ t_result = <<>>
    /\ t_pc = "built"

\* ellipsis(ellipsis)
TEllipsis ==
    /\ t_pc = "built"
    /\ t_ellipsis = <<>>
    /\ \E e \in TEllipsisInputs : t_ellipsis' = e
    /\ UNCHANGED <<t_spans, max_width, ellipsis_style, t_result, t_pc>>
    /\ UNCHANGED <<hvars, rvars>>

\* ellipsis_style(style)
TEllipsisStyle ==
    /\ t_pc = "built"
    /\ ellipsis_style = DefaultStyle
    /\ \E style \in EllipsisStyles : ellipsis_style' = style
    /\ UNCHANGED <<t_spans, max_width, t_ellipsis, t_result, t_pc>>
    /\ UNCHANGED <<hvars, rvars>>

\* into_spans(self)
TIntoSpans ==
    /\ t_pc = "built"
    /\ t_result' = truncate_into_spans(TSelf)
    /\ t_pc' = "done"
    /\ UNCHANGED <<t_spans, max_width, t_ellipsis, ellipsis_style>>
    /\ UNCHANGED <<hvars, rvars>>

NextTruncate ==
    \/ TEllipsis
    \/ TEllipsisStyle
    \/ TIntoSpans

----------------------------------------------------------------------------
\* The three components, each alone (the other two idle) and together.

HighlightInit == InitHighlight /\ TIdle /\ RIdle
TruncateInit == HIdle /\ InitTruncate /\ RIdle
RangesInit == HIdle /\ TIdle /\ InitRanges

SpecHighlight == HighlightInit /\ [][NextHighlight]_vars
SpecTruncate == TruncateInit /\ [][NextTruncate]_vars
SpecRanges == RangesInit /\ [][NextRanges]_vars

Init == HighlightInit \/ TruncateInit \/ RangesInit

Next == NextHighlight \/ NextTruncate \/ NextRanges

Spec == Init /\ [][Next]_vars

----------------------------------------------------------------------------
\* Properties of the highlighter, stated on what into_spans returned.

Done == pc = "done"

Last(s) == s[Len(s)]

TotalLength == TotalLen(spans)

\* limit as the specification words it
ClaimLimit ==
    IF ellipsis = None THEN TotalLength
    ELSE IF TotalLength >= Len(ellipsis[1]) THEN TotalLength - Len(ellipsis[1]) ELSE 0

\* into_spans pushes an ellipsis fragment
WithEllipsis == ellipsis # None /\ spans # <<>>

\* the output without its ellipsis fragment
NonEllipsis(out) == IF WithEllipsis /\ out # <<>> THEN SubSeq(out, 1, Len(out) - 1) ELSE out

\* the global byte interval [OutStart, OutEnd) of output fragment i
OutStart(out, i) == TotalLen(SubSeq(out, 1, i - 1))
OutEnd(out, i) == TotalLen(SubSeq(out, 1, i))

\* the global byte interval [FragStart, FragEnd) of input fragment j
FragStart(j) == TotalLen(SubSeq(spans, 1, j - 1))
FragEnd(j) == TotalLen(SubSeq(spans, 1, j))

\* a match list is sorted and disjoint, every range with start < end
SortedDisjoint(ms) ==
    /\ \A i \in 1..Len(ms) : ms[i].start < ms[i].end
    /\ \A i, j \in 1..Len(ms) : i < j => ms[i].end <= ms[j].start

\* a merged match list: moreover no two ranges are adjacent
Merged(ms) ==
    /\ \A i \in 1..Len(ms) : ms[i].start < ms[i].end
    /\ \A i, j \in 1..Len(ms) : i < j => ms[i].end < ms[j].start

InSomeRange(ms, p) == \E i \in 1..Len(ms) : ms[i].start <= p /\ p < ms[i].end

\* C1: the contents of the non-ellipsis output fragments, concatenated, are
\* the first limit bytes of the concatenated input contents (all of them
\* without an ellipsis), and none of these fragments is empty.
C1_ContentPreserved ==
    Done =>
        /\ Text(NonEllipsis(result)) = SubSeq(Text(spans), 1, ClaimLimit)
        /\ \A i \in 1..Len(NonEllipsis(result)) : NonEllipsis(result)[i].content # <<>>

\* C1's case: two fragments, an ellipsis that cuts the content, matches that
\* split it.
C1_Witness ==
    /\ Done /\ ellipsis # None /\ Len(spans) = 2
    /\ 0 < ClaimLimit /\ ClaimLimit < TotalLength
    /\ Len(matches) = 2 /\ Len(result) >= 4

\* C2: for a sorted, disjoint match list every non-ellipsis output fragment
\* lies in one input fragment f and is either inside one match range, styled
\* patch(f.style, matched_style), or outside every match range, styled
\* patch(f.style, not_matched_style).
C2_StyleBySegment ==
    (Done /\ SortedDisjoint(matches)) =>
        LET out == NonEllipsis(result) IN
        \A i \in 1..Len(out) :
            LET a == OutStart(out, i)
                b == OutEnd(out, i)
                fs == {j \in 1..Len(spans) : FragStart(j) <= a /\ b <= FragEnd(j)}
            IN /\ a < b
               /\ Cardinality(fs) = 1
               /\ \A j \in fs :
                    \/ /\ \E k \in 1..Len(matches) :
                             matches[k].start <= a /\ b <= matches[k].end
                       /\ out[i].style = patch(spans[j].style, matched_style)
                    \/ /\ \A p \in a..(b - 1) : ~InSomeRange(matches, p)
                       /\ out[i].style = patch(spans[j].style, not_matched_style)

\* C2's case: styled fragments, both styles set, a match that crosses the
\* fragment boundary, with an ellipsis.
C2_Witness ==
    /\ Done /\ SortedDisjoint(matches) /\ Len(spans) = 2 /\ ellipsis # None
    /\ matched_style # DefaultStyle /\ not_matched_style # DefaultStyle
    /\ \E k \in 1..Len(matches) :
          matches[k].start < FragEnd(1) /\ FragEnd(1) < matches[k].end
    /\ Len(NonEllipsis(result)) >= 3

\* the clipped match list as the specification words it: the first range
\* with end > limit and all after it are replaced by one clipped range
ClaimClipped ==
    LET past == {i \in 1..Len(matches) : matches[i].end > ClaimLimit} IN
    IF past = {} THEN matches
    ELSE LET i == SetMin(past) IN
         Append(SubSeq(matches, 1, i - 1),
                IF matches[i].start < ClaimLimit
                THEN Range(matches[i].start, TotalLength)
                ELSE Range(ClaimLimit, TotalLength))

\* C4: with an ellipsis and at least one input fragment the last output
\* fragment is the ellipsis text, styled matched_style itself when limit is
\* inside a range of the clipped match list and not_matched_style itself
\* otherwise; for a merged list and limit < total length: matched_style when
\* some supplied range has end > limit, not_matched_style when none has.
C4_EllipsisFragment ==
    (Done /\ WithEllipsis) =>
        /\ result # <<>>
        /\ Last(result).content = ellipsis[1]
        /\ Last(result).style =
              IF InSomeRange(ClaimClipped, ClaimLimit)
              THEN matched_style ELSE not_matched_style
        /\ (Merged(matches) /\ ClaimLimit < TotalLength) =>
              Last(result).style =
                  IF \E k \in 1..Len(matches) : matches[k].end > ClaimLimit
                  THEN matched_style ELSE not_matched_style

\* C4's case: a merged list with a range wholly past the end of the content
\* makes the ellipsis matched.
C4_Witness ==
    /\ Done /\ WithEllipsis /\ Merged(matches) /\ ClaimLimit < TotalLength
    /\ matched_style # not_matched_style
    /\ \E k \in 1..Len(matches) : matches[k].start > TotalLength
    /\ \A k \in 1..Len(matches) : ~(matches[k].start <= ClaimLimit /\ ClaimLimit < matches[k].end)
    /\ Last(result).style = matched_style

\* matches is what matched_indices stored for indices
FromIndices == matches = to_ranges(indices, FALSE).ranges

\* what into_spans returns when the indices >= total length are removed
FilteredResult ==
    into_spans([Self EXCEPT !.matches =
                   to_ranges(SelectSeq(indices, LAMBDA i : i < TotalLength), FALSE).ranges],
               FALSE).spans

\* C9 as claimed: the output is the output with the indices >= total content
\* length removed, with or without an ellipsis.
C9_OutOfBoundsInert == (Done /\ FromIndices) => result = FilteredResult

\* C9, amended: removing the indices >= total content length changes neither
\* the non-ellipsis fragments nor the ellipsis text, and nothing at all
\* without an ellipsis; only the style of the ellipsis fragment may differ.
C9_OutOfBoundsInertBelowLimit ==
    (Done /\ FromIndices) =>
        /\ NonEllipsis(result) = NonEllipsis(FilteredResult)
        /\ Len(result) = Len(FilteredResult)
        /\ WithEllipsis => Last(result).content = Last(FilteredResult).content
        /\ ellipsis = None => result = FilteredResult

\* C9's case: an index past the end of the content, an ellipsis, and an
\* output that differs from the filtered one in the ellipsis style alone.
C9_Witness ==
    /\ Done /\ FromIndices /\ WithEllipsis /\ TotalLength > 0
    /\ \E k \in 1..Len(indices) : indices[k] >= TotalLength
    /\ \E k \in 1..Len(indices) : indices[k] < ClaimLimit
    /\ result # FilteredResult
    /\ NonEllipsis(result) = NonEllipsis(FilteredResult)

\* a match range starts before limit and ends after it
Straddles(r) == r.start < ClaimLimit /\ ClaimLimit < r.end

\* the ellipsis replaces content: it is not empty and limit < total length
Elides == WithEllipsis /\ ClaimLimit < TotalLength

\* the input fragment that holds byte limit - 1
LastFragBelowLimit ==
    CHOOSE j \in 1..Len(spans) : FragStart(j) < ClaimLimit /\ ClaimLimit <= FragEnd(j)

\* the matched content before limit that the last content fragment holds
MatchedTail(r) ==
    SubSeq(Text(spans), Max(r.start, FragStart(LastFragBelowLimit)) + 1, ClaimLimit)

\* the line "abcdef..." with matched indices [3, 4, 5, 6] and ellipsis "..."
ExampleB ==
    /\ spans = <<Styled(SubSeq(Letters, 1, 6) \o Dots(3), FragStyle(1))>>
    /\ indices = <<3, 4, 5, 6>>
    /\ FromIndices
    /\ ellipsis = Some(Dots(3))

\* C10 as claimed: with an ellipsis and a match range that straddles limit,
\* the matched content before limit and the ellipsis text are one fragment
\* ("abc", "def..." in the example).
C10_EllipsisJoined ==
    (Done /\ WithEllipsis /\ SortedDisjoint(matches)) =>
        /\ \A k \in 1..Len(matches) :
              Straddles(matches[k]) =>
                  Last(result).content = MatchedTail(matches[k]) \o ellipsis[1]
        /\ ExampleB =>
              Contents(result) = <<SubSeq(Letters, 1, 3), SubSeq(Letters, 4, 6) \o Dots(3)>>

\* C10, amended: when limit < total length, the matched content before limit
\* and the ellipsis are two fragments, the first styled patch(f.style, matched_style) and the ellipsis
\* styled matched_style ("abc", "def", "..." in the example).
C10_EllipsisSeparate ==
    (Done /\ Elides /\ SortedDisjoint(matches)) =>
        /\ \A k \in 1..Len(matches) :
              Straddles(matches[k]) =>
                  /\ Len(result) >= 2
                  /\ Last(result) = Styled(ellipsis[1], matched_style)
                  /\ result[Len(result) - 1] =
                        Styled(MatchedTail(matches[k]),
                               patch(spans[LastFragBelowLimit].style, matched_style))
        /\ ExampleB =>
              result = <<Styled(SubSeq(Letters, 1, 3), patch(FragStyle(1), not_matched_style)),
                         Styled(SubSeq(Letters, 4, 6), patch(FragStyle(1), matched_style)),
                         Styled(Dots(3), matched_style)>>

\* C10's case: the example, with both styles set.
C10_Witness ==
    /\ Done /\ ExampleB
    /\ matched_style # DefaultStyle /\ not_matched_style # DefaultStyle
    /\ Straddles(matches[1])

\* a match range ends exactly at limit
EndsAtLimit(r) == r.end = ClaimLimit

\* the line "abcdef..." with matched indices [3, 4, 5] and ellipsis "..."
\* (test_highlight_matched_text_ellipsis_1)
ExampleEllipsis1 ==
    /\ spans = <<Styled(SubSeq(Letters, 1, 6) \o Dots(3), FragStyle(1))>>
    /\ indices = <<3, 4, 5>>
    /\ FromIndices
    /\ ellipsis = Some(Dots(3))

\* C11 as claimed: with an ellipsis and a match range of a merged list that
\* ends exactly at limit = total length - len(ellipsis), the ellipsis
\* fragment is styled matched_style.
C11_EllipsisAbsorbed ==
    (Done /\ WithEllipsis /\ Merged(matches)) =>
        \A k \in 1..Len(matches) :
            EndsAtLimit(matches[k]) => Last(result).style = matched_style

\* C11, amended: a match range that ends exactly at limit does not reach the
\* ellipsis. With such a range in a sorted, disjoint list the ellipsis
\* fragment is styled not_matched_style, unless limit < total length and a
\* later range ends past limit, which alone makes it matched_style; the line
\* "abcdef..." with indices [3, 4, 5] and ellipsis "..." gives "abc"
\* (unmatched), "def" (matched), "..." (unmatched).
C11_EllipsisNotAbsorbed ==
    (Done /\ WithEllipsis /\ SortedDisjoint(matches)) =>
        /\ \A k \in 1..Len(matches) :
              EndsAtLimit(matches[k]) =>
                  Last(result).style =
                      IF /\ ClaimLimit < TotalLength
                         /\ \E j \in 1..Len(matches) : matches[j].end > ClaimLimit
                      THEN matched_style ELSE not_matched_style
        /\ ExampleEllipsis1 =>
              result = <<Styled(SubSeq(Letters, 1, 3), patch(FragStyle(1), not_matched_style)),
                         Styled(SubSeq(Letters, 4, 6), patch(FragStyle(1), matched_style)),
                         Styled(Dots(3), not_matched_style)>>

\* C11's case: the example with both styles set; the range (3, 6) ends at
\* limit = 6 and the ellipsis is styled not_matched_style.
C11_Witness ==
    /\ Done /\ ExampleEllipsis1
    /\ matched_style # DefaultStyle /\ not_matched_style # DefaultStyle
    /\ matched_style # not_matched_style
    /\ EndsAtLimit(matches[1])
    /\ Last(result).style = not_matched_style

\* why into_spans would fail on the builder as it stands
WhyFails(checks) == into_spans(Self, checks).why

\* C12 as claimed: into_spans never fails, on any fragment list (contents
\* with multi-byte characters included), any match list and any ellipsis:
\* every slice it takes is inside its fragment with both ends on character
\* boundaries, and next_break - current_pos never underflows.
C12_NeverFails ==
    pc = "built" => \A checks \in BOOLEAN : WhyFails(checks) = "none"

\* the part of it that holds: no slice is out of range and no subtraction
\* underflows; into_spans fails only on a slice that ends inside a character
SlicesInRange ==
    pc = "built" => \A checks \in BOOLEAN : WhyFails(checks) \in {"none", "boundary"}

\* a fragment list without multi-byte characters is never the cause
SingleByteNeverFails ==
    (pc = "built" /\ \A j \in 1..Len(spans) :
                        \A k \in 1..Len(spans[j].content) :
                            spans[j].content[k] \notin ContinuationBytes)
        => \A checks \in BOOLEAN : WhyFails(checks) = "none"

\* the input fragment that holds byte p
FragOf(p) == CHOOSE j \in 1..Len(spans) : FragStart(j) <= p /\ p < FragEnd(j)

\* the match-state of byte p
MatchState(p) == InSomeRange(matches, p)

\* C13: for a merged match list, with or without an ellipsis, two consecutive
\* output fragments that come from the same input fragment differ in
\* match-state and every output fragment has one match-state throughout (a
\* maximal same-state run inside one input fragment, below limit, is exactly
\* one output fragment); and no output fragment crosses an input fragment
\* boundary below limit, whatever the styles on both sides.
C13_SplitOnlyAtStateChange ==
    (Done /\ Merged(matches)) =>
        LET out == NonEllipsis(result) IN
        /\ \A i \in 1..(Len(out) - 1) :
              FragOf(OutStart(out, i)) = FragOf(OutStart(out, i + 1)) =>
                  MatchState(OutStart(out, i)) # MatchState(OutStart(out, i + 1))
        /\ \A i \in 1..Len(out) :
              \A p \in OutStart(out, i)..(OutEnd(out, i) - 1) :
                  /\ MatchState(p) = MatchState(OutStart(out, i))
                  /\ FragOf(p) = FragOf(OutStart(out, i))
        /\ \A j \in 1..Len(spans) :
              (0 < FragEnd(j) /\ FragEnd(j) < ClaimLimit) =>
                  \E i \in 1..Len(out) : OutEnd(out, i) = FragEnd(j)

\* C13's case: an input fragment split in two where a range starts, and an
\* input fragment boundary kept between two output fragments of the same
\* resulting style.
C13_Witness ==
    /\ Done /\ Merged(matches) /\ matches # <<>>
    /\ matched_style # not_matched_style
    /\ LET out == NonEllipsis(result) IN
       /\ \E i \in 1..(Len(out) - 1) :
             /\ FragOf(OutStart(out, i)) = FragOf(OutStart(out, i + 1))
             /\ MatchState(OutStart(out, i)) # MatchState(OutStart(out, i + 1))
       /\ \E i \in 1..(Len(out) - 1) :
             /\ FragOf(OutStart(out, i)) # FragOf(OutStart(out, i + 1))
             /\ out[i].style = out[i + 1].style
             /\ MatchState(OutStart(out, i))

\* matched_indices was called with a list that holds the largest usize
HasMaxIndex == \E k \in 1..Len(indices) : indices[k] = USIZE_MAX

\* what into_spans returns when the largest usize is removed from indices
WithoutMaxResult ==
    into_spans([Self EXCEPT !.matches =
                   to_ranges(SelectSeq(indices, LAMBDA i : i < USIZE_MAX), FALSE).ranges],
               FALSE).spans

\* the largest index changes nothing in the output
MaxIndexInert == (Done /\ FromIndices /\ HasMaxIndex) => result = WithoutMaxResult

\* C14 as claimed: offset arithmetic is saturating: for an index list that
\* holds the largest usize, to_ranges computes index + 1 without overflow in
\* every build, and that index has no visible effect on the output of
\* into_spans.
C14_SaturatingOffsets ==
    HasMaxIndex =>
        /\ \A checks \in BOOLEAN : ~to_ranges(indices, checks).panic
        /\ MaxIndexInert

----------------------------------------------------------------------------
\* Properties of to_ranges, stated on what the direct calls returned.

Returned == r_pc \in {"returned", "reapplied"}

\* the integers the ranges cover
Covered(rs) == UNION {rs[i].start..(rs[i].end - 1) : i \in 1..Len(rs)}

\* the deduplicated input
InputSet == {r_indices[k] : k \in 1..Len(r_indices)}

\* half-open ranges with start < end, sorted, disjoint, no two adjacent,
\* that cover exactly the input
RangesExact ==
    /\ \A i \in 1..Len(r_ranges) : r_ranges[i].start < r_ranges[i].end
    /\ \A i \in 1..(Len(r_ranges) - 1) : r_ranges[i].end < r_ranges[i + 1].start
    /\ Covered(r_ranges) = InputSet

BelowMax == \A k \in 1..Len(r_indices) : r_indices[k] < USIZE_MAX

----------------------------------------------------------------------------
\* Properties of the truncator, stated on what into_spans returned.

TDone == t_pc = "done"

\* the display width of a fragment list
RECURSIVE WidthOf(_)
WidthOf(ss) == IF ss = <<>> THEN 0 ELSE measure_text_width(Head(ss).content) + WidthOf(Tail(ss))

TotalWidth == WidthOf(t_spans)
EllipsisWidth == measure_text_width(t_ellipsis)

\* C5: when the fragments' display widths sum to at most max_width, the
\* output is the input fragment list unchanged, whatever the ellipsis.
C5_IdentityWhenFits == (TDone /\ TotalWidth <= max_width) => t_result = t_spans

\* C5's case: an exact fit, with an empty fragment, an ellipsis and its style.
C5_Witness ==
    /\ TDone /\ TotalWidth = max_width /\ max_width > 0
    /\ Len(t_spans) = 2 /\ t_spans[1].content = <<>>
    /\ t_ellipsis # <<>> /\ ellipsis_style # DefaultStyle
    /\ t_result = t_spans

\* C6: the display widths of the returned fragments sum to at most max_width.
C6_WidthBounded == TDone => WidthOf(t_result) <= max_width

\* C6's case: a double-width glyph that cannot be cut to the remaining budget
\* leaves a column unused.
C6_Witness ==
    /\ TDone /\ TotalWidth > max_width /\ EllipsisWidth < max_width
    /\ t_ellipsis # <<>>
    /\ WidthOf(t_result) = max_width - 1
    /\ Len(t_result) >= 2

\* cut is the longest prefix of text that is at most w columns wide
LongestPrefix(cut, text, w) ==
    /\ Len(cut) <= Len(text)
    /\ cut = SubSeq(text, 1, Len(cut))
    /\ measure_text_width(cut) <= w
    /\ Len(cut) < Len(text) => measure_text_width(SubSeq(text, 1, Len(cut) + 1)) > w

\* the output without the ellipsis fragment that a non-empty ellipsis gives
ContentPart == IF t_ellipsis # <<>> THEN SubSeq(t_result, 1, Len(t_result) - 1) ELSE t_result

\* the number of leading fragments whose cumulative width fits in w
FitCount(w) ==
    CHOOSE k \in 0..Len(t_spans) :
        /\ \A j \in 0..k : WidthOf(SubSeq(t_spans, 1, j)) <= w
        /\ k < Len(t_spans) => WidthOf(SubSeq(t_spans, 1, k + 1)) > w

\* the line "abc", "def", "ghi" with max_width 7 and ellipsis ".."
ExampleC ==
    /\ t_spans = <<Styled(SubSeq(NarrowLetters, 1, 3), TStyle(1)),
                   Styled(SubSeq(NarrowLetters, 4, 6), TStyle(2)),
                   Styled(SubSeq(NarrowLetters, 7, 9), TStyle(3))>>
    /\ max_width = 7
    /\ t_ellipsis = Dots(2)

\* C7: when the total width exceeds max_width and the ellipsis is narrower
\* than max_width, the non-ellipsis output is the longest leading run of
\* fragments that fits in budget = max_width - width(ellipsis), verbatim,
\* then the first fragment that does not fit, cut to the longest prefix that
\* fits in the rest of the budget, with its own style and only if not empty.
C7_KeptThenCut ==
    (TDone /\ TotalWidth > max_width /\ EllipsisWidth < max_width) =>
        LET budget == max_width - EllipsisWidth
            k == FitCount(budget)
            rest == budget - WidthOf(SubSeq(t_spans, 1, k))
        IN /\ k < Len(t_spans)
           /\ Len(ContentPart) \in {k, k + 1}
           /\ SubSeq(ContentPart, 1, k) = SubSeq(t_spans, 1, k)
           /\ Len(ContentPart) = k + 1 =>
                 /\ ContentPart[k + 1].content # <<>>
                 /\ ContentPart[k + 1].style = t_spans[k + 1].style
                 /\ LongestPrefix(ContentPart[k + 1].content, t_spans[k + 1].content, rest)
           /\ Len(ContentPart) = k => LongestPrefix(<<>>, t_spans[k + 1].content, rest)
           /\ ExampleC =>
                 Contents(t_result) = <<SubSeq(NarrowLetters, 1, 3),
                                        SubSeq(NarrowLetters, 4, 5), Dots(2)>>

\* C7's case: the example.
C7_Witness == TDone /\ ExampleC /\ Len(t_result) = 3 /\ ellipsis_style # DefaultStyle

\* C8 as claimed: when the total width exceeds max_width the last output
\* fragment is the ellipsis with ellipsis_style, whole when it is narrower
\* than max_width, and else cut to max_width as the only fragment; for every
\* ellipsis text, the empty one too.
C8_EllipsisLast ==
    (TDone /\ TotalWidth > max_width) =>
        /\ t_result # <<>>
        /\ EllipsisWidth < max_width =>
              Last(t_result) = Styled(t_ellipsis, ellipsis_style)
        /\ EllipsisWidth >= max_width =>
              /\ Len(t_result) = 1
              /\ t_result[1].style = ellipsis_style
              /\ LongestPrefix(t_result[1].content, t_ellipsis, max_width)

\* C8, amended: the same for every ellipsis text that is not empty; with the
\* empty ellipsis text and max_width = 0 the only output fragment is the
\* empty text with ellipsis_style, and with max_width > 0 no ellipsis
\* fragment is pushed: every output fragment is an input fragment, whole or
\* cut, with its own style.
C8_EllipsisLastUnlessEmpty ==
    (TDone /\ TotalWidth > max_width) =>
        /\ (EllipsisWidth < max_width /\ t_ellipsis # <<>>) =>
              /\ t_result # <<>>
              /\ Last(t_result) = Styled(t_ellipsis, ellipsis_style)
        /\ EllipsisWidth >= max_width =>
              /\ Len(t_result) = 1
              /\ t_result[1].style = ellipsis_style
              /\ LongestPrefix(t_result[1].content, t_ellipsis, max_width)
        /\ (EllipsisWidth < max_width /\ t_ellipsis = <<>>) =>
              /\ Len(t_result) <= Len(t_spans)
              /\ \A i \in 1..Len(t_result) :
                    /\ t_result[i].style = t_spans[i].style
                    /\ Len(t_result[i].content) <= Len(t_spans[i].content)
                    /\ t_result[i].content =
                          SubSeq(t_spans[i].content, 1, Len(t_result[i].content))

\* C8's case: an exact fit, no fragment cut, and the whole ellipsis last.
C8_Witness ==
    /\ TDone /\ TotalWidth > max_width /\ EllipsisWidth < max_width
    /\ t_ellipsis # <<>> /\ ellipsis_style # DefaultStyle
    /\ Len(t_result) = 2
    /\ t_result[1] = t_spans[1]
    /\ WidthOf(t_result) = max_width
    /\ Last(t_result) = Styled(t_ellipsis, ellipsis_style)

====
